---------------------------- MODULE Spec2Model ----------------------------
(***************************************************************************)
(* The "Wilcoxon Signed Rank Test" cell of the notebook                    *)
(* "4. Non-parametric Tests.ipynb": the hand-rolled computation of the s+  *)
(* statistic and of the table printed below it, and the cell after it     *)
(* that calls scipy.stats.wilcoxon on the same differences.                *)
(*                                                                         *)
(* Numbers are fixed-point integers with six decimals (30 is 30000000), the*)
(* precision at which the notebook prints its data.  Only subtraction,     *)
(* absolute value and comparison are applied to them, all exact here.      *)
(*                                                                         *)
(* The second notebook defines the evaluation metrics accuracy, precision, *)
(* recall, f1, MSE, RMSE, MAE and R2; their calls are the specification    *)
(* MetricsSpec.                                                            *)
(* Their results are exact rationals, or the error or non-number the call  *)
(* ends in.                                                                *)
(***************************************************************************)
EXTENDS Integers, Sequences, FiniteSets

(* ------------------------------ bounds --------------------------------- *)

\* Longest enumerated sample.
MaxLen == 4

\* Largest distance of an enumerated observation from the median, in minutes.
MaxDev == 2

\* Largest factor the differences are scaled by.
MaxScale == 3

\* Longest sequence of labels, and the largest label.
MaxN == 3
MaxLabel == 2

\* The fixed-point representation of 1.0.
One == 10^6

(* --------------------------- program constants ------------------------- *)

\* median = 30
median == 30 * One

\* range(1, 18): the stop of the hard-coded 'ranks' column.
RanksStop == 18

\* The 'data' column of the printed table: the 17 observations of
\* amazon_data.csv, in file order.
ReferenceData ==
    << 57925694, 40574152, 30232974, 20853756, 21355134, 14037427,
       31696030,  5784466, 65960599, 50994944, 30970240,  9928767,
       25292288, 12350119, 28262646, 20945894, 54300015 >>

(* ------------------------------ helpers -------------------------------- *)

\* np.abs
Abs(x) == IF x < 0 THEN -x ELSE x

\* The branch of the first loop: '-' for a negative difference, '+' otherwise.
SignOfWrong(diff) == IF diff > 0 THEN "-" ELSE "+"
SignOfAboveOne(diff) == IF diff <= One THEN "-" ELSE "+"
SignOf(diff) == IF diff < 0 THEN "-" ELSE "+"

\* dict(): the empty dictionary.
EmptyDict == [k \in {} |-> "+"]

\* d[k] = v on a Python dictionary: a new key is added, an old one overwritten.
DictSetKeepFirst(d, k, v) ==
    [x \in DOMAIN d \cup {k} |-> IF x \in DOMAIN d THEN d[x] ELSE v]
DictSet(d, k, v) == [x \in DOMAIN d \cup {k} |-> IF x = k THEN v ELSE d[x]]

\* One pass of the first loop over the dictionary.
SignsPut(sg, diff) == DictSet(sg, Abs(diff), SignOf(diff))

\* data - median, elementwise.
Subtract(xs, m) == [k \in 1..Len(xs) |-> xs[k] - m]

\* np.sort: ascending order.
RECURSIVE InsertSorted(_, _)
InsertSorted(s, x) ==
    IF s = << >> THEN << x >>
    ELSE IF x <= Head(s) THEN << x >> \o s
    ELSE << Head(s) >> \o InsertSorted(Tail(s), x)

RECURSIVE SortDescending(_)
SortDescending(s) ==
    IF s = << >> THEN << >>
    ELSE LET r == SortDescending(Tail(s))
             a == InsertSorted([k \in 1..Len(r) |-> r[Len(r) + 1 - k]], Head(s))
         IN  [k \in 1..Len(a) |-> a[Len(a) + 1 - k]]

RECURSIVE SortSeq(_)
SortSeq(s) ==
    IF s = << >> THEN << >> ELSE InsertSorted(SortSeq(Tail(s)), Head(s))

\* The rank of position idx of enumerate(sorted_absolute_diffs): idx+1.
RankZeroBased(i) == i
Rank(i) == i + 1

\* One pass of the second loop over s_plus.
SPlusAdd(s, sg, diff, i) == IF sg[diff] = "+" THEN s + Rank(i) ELSE s

(* ------------------- the two loops as functions ------------------------ *)

\* np.abs over an array.
AbsoluteDiffsOf(ds) == [k \in 1..Len(ds) |-> Abs(ds[k])]

\* The dictionary the first loop leaves after consuming ds.
RECURSIVE SignsAfter(_)
SignsAfter(ds) ==
    IF ds = << >> THEN EmptyDict
    ELSE SignsPut(SignsAfter(SubSeq(ds, 1, Len(ds) - 1)), ds[Len(ds)])

\* s_plus after the first n passes of the second loop.
RECURSIVE SPlusAfter(_, _, _)
SPlusAfter(sorted, sg, n) ==
    IF n = 0 THEN 0
    ELSE SPlusAdd(SPlusAfter(sorted, sg, n - 1), sg, sorted[n], n - 1)

\* s_plus as the cell computes it from the differences ds.
SPlusOfDiffs(ds) ==
    LET sorted == SortSeq(AbsoluteDiffsOf(ds))
    IN  SPlusAfter(sorted, SignsAfter(ds), Len(sorted))

(* --------------------- the library's statistic ------------------------- *)

\* Twice what stats.wilcoxon(ds, alternative="two-sided") returns as its
\* statistic: zero differences are dropped (zero_method "wilcox"), the
\* magnitudes of the others get average ranks, and the statistic is the smaller
\* of the rank sum of the positive and of the negative differences.
\* Doubled, so that average ranks stay integers.
TwiceLibraryStatistic(ds) ==
    LET IsNot0(d) == d # 0
        d  == SelectSeq(ds, IsNot0)
        n  == Len(d)
        r2 == [k \in 1..n |->
                 2 * Cardinality({j \in 1..n : Abs(d[j]) < Abs(d[k])})
                   + Cardinality({j \in 1..n : Abs(d[j]) = Abs(d[k])}) + 1]
        RECURSIVE Sum(_, _)
        Sum(f, m) == IF m = 0 THEN 0 ELSE f[m] + Sum(f, m - 1)
        r_plus  == Sum([k \in 1..n |-> IF d[k] > 0 THEN r2[k] ELSE 0], n)
        r_minus == Sum([k \in 1..n |-> IF d[k] < 0 THEN r2[k] ELSE 0], n)
    IN  IF r_plus < r_minus THEN r_plus ELSE r_minus

(* ------------------------- evaluation metrics -------------------------- *)

\* A result: a rational num/den with den > 0, or how the call ended instead.
Number(n, d) ==
    IF d < 0 THEN [kind |-> "number", num |-> 0 - n, den |-> 0 - d]
    ELSE [kind |-> "number", num |-> n, den |-> d]
ZeroDivisionError == [kind |-> "ZeroDivisionError", num |-> 0, den |-> 1]
NaN == [kind |-> "nan", num |-> 0, den |-> 1]
Inf == [kind |-> "inf", num |-> 0, den |-> 1]
MinusInf == [kind |-> "-inf", num |-> 0, den |-> 1]
NoValue == [kind |-> "none", num |-> 0, den |-> 1]

\* a / b on two Python numbers: ZeroDivisionError when b is zero.
PyDivide(a, b) ==
    IF b.num = 0 THEN ZeroDivisionError
    ELSE Number(a.num * b.den, a.den * b.num)

\* f[1] + ... + f[n]
RECURSIVE SumSeq(_, _)
SumSeq(f, n) == IF n = 0 THEN 0 ELSE f[n] + SumSeq(f, n - 1)

\* np.mean of an array of integers: nan for the empty array.
NpMean(xs) ==
    IF Len(xs) = 0 THEN NaN ELSE Number(SumSeq(xs, Len(xs)), Len(xs))

\* def accuracy: np.mean((predictions == labels).astype(int))
AccuracyOfMismatches(ls, ps) ==
    NpMean([k \in 1..Len(ls) |-> IF ps[k] # ls[k] THEN 1 ELSE 0])
accuracy(ls, ps) ==
    NpMean([k \in 1..Len(ls) |-> IF ps[k] = ls[k] THEN 1 ELSE 0])

\* tp and fp after the first n passes of precision's loop.
RECURSIVE PrecisionCounts(_, _, _)
PrecisionCounts(ls, ps, n) ==
    IF n = 0 THEN [tp |-> 0, fp |-> 0]
    ELSE LET c == PrecisionCounts(ls, ps, n - 1) IN
         IF ps[n] = 1
         THEN IF ls[n] = 1 THEN [c EXCEPT !.tp = @ + 1]
                           ELSE [c EXCEPT !.fp = @ + 1]
         ELSE c

\* def precision: tp / (tp + fp)
PrecisionOverAll(ls, ps) ==
    LET c == PrecisionCounts(ls, ps, Len(ls))
    IN  PyDivide(Number(c.tp, 1), Number(Len(ls), 1))
precision(ls, ps) ==
    LET c == PrecisionCounts(ls, ps, Len(ls))
    IN  PyDivide(Number(c.tp, 1), Number(c.tp + c.fp, 1))

\* tp and fn after the first n passes of recall's loop.
RECURSIVE RecallCounts(_, _, _)
RecallCounts(ls, ps, n) ==
    IF n = 0 THEN [tp |-> 0, fn |-> 0]
    ELSE LET c == RecallCounts(ls, ps, n - 1) IN
         IF ls[n] = 1
         THEN IF ps[n] = 1 THEN [c EXCEPT !.tp = @ + 1]
                           ELSE [c EXCEPT !.fn = @ + 1]
         ELSE c

\* def recall: tp / (tp + fn)
recall(ls, ps) ==
    LET c == RecallCounts(ls, ps, Len(ls))
    IN  PyDivide(Number(c.tp, 1), Number(c.tp + c.fn, 1))

\* def f1: p = precision(...); r = recall(...); 2 * (p*r) / (p+r).
\* An error raised by precision or by recall ends the call.
f1(ls, ps) ==
    LET p == precision(ls, ps)
        r == recall(ls, ps)
    IN  IF p.kind # "number" THEN p
        ELSE IF r.kind # "number" THEN r
        ELSE PyDivide(Number(2 * p.num * r.num, p.den * r.den),
                      Number(p.num * r.den + r.num * p.den, p.den * r.den))

\* def MSE: np.mean(np.square(labels - predictions))
MSE(ls, ps) ==
    NpMean([k \in 1..Len(ls) |-> (ls[k] - ps[k]) * (ls[k] - ps[k])])

\* np.sqrt of a result: kept as the square root of the rational num/den;
\* the square root of nan is nan.
NpSqrt(a) ==
    IF a.kind = "number" THEN [kind |-> "sqrt", num |-> a.num, den |-> a.den]
    ELSE a

\* def RMSE: np.sqrt(MSE(labels, predictions))
RMSE(ls, ps) == NpSqrt(MSE(ls, ps))

\* def MAE: np.mean(np.abs(labels - predictions))
MAEWithoutAbs(ls, ps) == NpMean([k \in 1..Len(ls) |-> ls[k] - ps[k]])
MAE(ls, ps) == NpMean([k \in 1..Len(ls) |-> Abs(ls[k] - ps[k])])

\* np.var(labels): the mean of the squared deviations from the mean
\* (population variance, ddof = 0).
NpVarDdof(xs, ddof) ==
    LET n == Len(xs)
        s == SumSeq(xs, n)
        \* deviation k is (n * xs[k] - s) / n
        sq == SumSeq([k \in 1..n |-> (n * xs[k] - s) * (n * xs[k] - s)], n)
    IN  IF n = 0 THEN NaN
        ELSE IF n - ddof <= 0 THEN NaN
        ELSE Number(sq, n * n * (n - ddof))
NpVarSample(xs) == NpVarDdof(xs, 1)
NpVar(xs) == NpVarDdof(xs, 0)

\* a / b on two numpy floats: no exception; x/0 is inf or nan.
\* Only the case a >= 0 arises (a is a mean of squares).
NpDivide(a, b) ==
    IF a.kind # "number" \/ b.kind # "number" THEN NaN
    ELSE IF b.num = 0 THEN (IF a.num = 0 THEN NaN ELSE Inf)
    ELSE Number(a.num * b.den, a.den * b.num)

\* def R2: 1 - (MSE(labels, predictions) / np.var(labels)).
\* 1 - inf is -inf and 1 - nan is nan.
R2(ls, ps) ==
    LET q == NpDivide(MSE(ls, ps), NpVar(ls))
    IN  IF q.kind = "number" THEN Number(q.den - q.num, q.den)
        ELSE IF q.kind = "inf" THEN MinusInf
        ELSE NaN

(* ------------------------------- inputs -------------------------------- *)

\* Whole minutes around the median: exact as floating-point numbers too.
Values == { median + d * One : d \in (0 - MaxDev)..MaxDev }

\* All sequences over S of length at most n.
SeqsUpTo(S, n) == UNION { [1..k -> S] : k \in 0..n }

\* Samples with as many observations as the hard-coded 'ranks' column has
\* entries: the notebook's data, and a file whose every row is the median.
FullLengthSamples ==
    { ReferenceData, [k \in 1..(RanksStop - 1) |-> median] }

Samples == SeqsUpTo(Values, MaxLen) \cup FullLengthSamples

\* Y_test and y_hat: two arrays of the same length.
LabelPairs ==
    UNION { [1..n -> 0..MaxLabel] \X [1..n -> 0..MaxLabel] : n \in 0..MaxN }

(* ------------------------------- state --------------------------------- *)

VARIABLES
    data,                   \* offset_data["0"]
    diffs,                  \* data - median
    signs,                  \* dictionary: absolute difference -> '+' or '-'
    absolute_diffs,         \* array grown by the first loop
    sorted_absolute_diffs,  \* np.sort(absolute_diffs)
    s_plus,                 \* the statistic: the hand-rolled integer, then
                            \* the result the library cell rebinds it to
    i,                      \* observations consumed by the first loop
    idx,                    \* idx of the second loop's next pass
    processed_data,         \* the DataFrame, as its sequence of rows
    printed,                \* what the print("s_plus:", s_plus) lines wrote
    pc,                     \* position in the two cells
    labels,                 \* Y_test
    predictions,            \* y_hat
    metric,                 \* the metric function called last
    value                   \* what that call returned, or how it ended

wvars == << data, diffs, signs, absolute_diffs, sorted_absolute_diffs, s_plus,
            i, idx, processed_data, printed, pc >>

mvars == << labels, predictions, metric, value >>

vars == << wvars, mvars >>

\* The metrics notebook is not running.
MetricsIdle ==
    /\ labels = << >>
    /\ predictions = << >>
    /\ metric = "idle"
    /\ value = NoValue

Init ==
    /\ data \in Samples
    /\ diffs = << >>
    /\ signs = EmptyDict
    /\ absolute_diffs = << >>
    /\ sorted_absolute_diffs = << >>
    /\ s_plus = 0
    /\ i = 0
    /\ idx = 0
    /\ processed_data = << >>
    /\ printed = << >>
    /\ pc = "diffs"
    /\ MetricsIdle

\* diffs = data - median; signs = dict(); absolute_diffs = np.array([])
ComputeDiffs ==
    /\ pc = "diffs"
    /\ diffs' = Subtract(data, median)
    /\ signs' = EmptyDict
    /\ absolute_diffs' = << >>
    /\ i' = 0
    /\ pc' = "signs"
    /\ UNCHANGED << data, sorted_absolute_diffs, s_plus, idx, processed_data,
                    printed >>
    /\ UNCHANGED mvars

\* One pass of "for diff in diffs".
SignsStep ==
    /\ pc = "signs"
    /\ i < Len(diffs)
    /\ LET diff == diffs[i + 1] IN
         /\ absolute_diffs' = Append(absolute_diffs, Abs(diff))
         /\ signs' = SignsPut(signs, diff)
    /\ i' = i + 1
    /\ UNCHANGED << data, diffs, sorted_absolute_diffs, s_plus, idx,
                    processed_data, printed, pc >>
    /\ UNCHANGED mvars

\* The first loop is exhausted: sorted_absolute_diffs = np.sort(...); s_plus = 0.
SortDiffs ==
    /\ pc = "signs"
    /\ i = Len(diffs)
    /\ sorted_absolute_diffs' = SortSeq(absolute_diffs)
    /\ s_plus' = 0
    /\ idx' = 0
    /\ pc' = "s_plus"
    /\ UNCHANGED << data, diffs, signs, absolute_diffs, i, processed_data,
                    printed >>
    /\ UNCHANGED mvars

\* One pass of "for idx, diff in enumerate(sorted_absolute_diffs)".
SPlusStep ==
    /\ pc = "s_plus"
    /\ idx < Len(sorted_absolute_diffs)
    /\ s_plus' = SPlusAdd(s_plus, signs, sorted_absolute_diffs[idx + 1], idx)
    /\ idx' = idx + 1
    /\ UNCHANGED << data, diffs, signs, absolute_diffs, sorted_absolute_diffs,
                    i, processed_data, printed, pc >>
    /\ UNCHANGED mvars

\* The second loop is exhausted: the statistic is computed.
SPlusDone ==
    /\ pc = "s_plus"
    /\ idx = Len(sorted_absolute_diffs)
    /\ pc' = "frame"
    /\ UNCHANGED << data, diffs, signs, absolute_diffs, sorted_absolute_diffs,
                    s_plus, i, idx, processed_data, printed >>
    /\ UNCHANGED mvars

\* ordered_signs = [signs[d] for d in sorted_absolute_diffs]
OrderedSigns ==
    [k \in 1..Len(sorted_absolute_diffs) |-> signs[sorted_absolute_diffs[k]]]

\* The DataFrame of the five columns, when the 'ranks' column range(1, 18)
\* has as many entries as the frame has rows.
Frame ==
    [k \in 1..Len(data) |->
        [ data                 |-> data[k],
          differences          |-> diffs[k],
          absolute_differences |-> sorted_absolute_diffs[k],
          signs                |-> OrderedSigns[k],
          ranks                |-> k ] ]

\* A frame with no rows takes its index from the first non-empty column set
\* on it: range(1, 18) gives it 17 rows, the empty columns holding NaN.
FrameOfEmpty ==
    [k \in 1..(RanksStop - 1) |->
        [ data                 |-> "NaN",
          differences          |-> "NaN",
          absolute_differences |-> "NaN",
          signs                |-> "NaN",
          ranks                |-> k ] ]

\* The DataFrame is built and both prints run.
BuildFrame ==
    /\ pc = "frame"
    /\ Len(data) \in {0, RanksStop - 1}
    /\ processed_data' = IF Len(data) = 0 THEN FrameOfEmpty ELSE Frame
    /\ printed' = << s_plus >>
    /\ pc' = "done"
    /\ UNCHANGED << data, diffs, signs, absolute_diffs, sorted_absolute_diffs,
                    s_plus, i, idx >>
    /\ UNCHANGED mvars

\* processed_data when the 'ranks' assignment raises: pd.DataFrame(data_dic)
\* with the three columns the loop has set before it.
PartialFrame ==
    [k \in 1..Len(data) |->
        [ data                 |-> data[k],
          differences          |-> diffs[k],
          absolute_differences |-> sorted_absolute_diffs[k],
          signs                |-> OrderedSigns[k] ] ]

\* processed_data["ranks"] = range(1, 18) on a frame of another length:
\* ValueError (length of values does not match length of index); the frame
\* keeps the columns set so far and nothing is printed.
FrameLengthError ==
    /\ pc = "frame"
    /\ Len(data) \notin {0, RanksStop - 1}
    /\ processed_data' = PartialFrame
    /\ pc' = "error"
    /\ UNCHANGED << data, diffs, signs, absolute_diffs, sorted_absolute_diffs,
                    s_plus, i, idx, printed >>
    /\ UNCHANGED mvars

\* What stats.wilcoxon(diffs, alternative="two-sided") returns as its
\* statistic: nan on an empty sample, else min(r_plus, r_minus).
LibraryStatistic ==
    IF Len(diffs) = 0 THEN NaN ELSE Number(TwiceLibraryStatistic(diffs), 2)

\* Every difference is zero (or there is none).
AllDiffsZero == \A k \in DOMAIN diffs : diffs[k] = 0

\* The library cell, run once the first cell has ended (diffs is bound in
\* either case): s_plus, p = stats.wilcoxon(...); print("s_plus:", s_plus).
\* s_plus is rebound to the library's statistic and printed; p is read by
\* no later cell and is not kept.
LibraryWilcoxon ==
    /\ pc \in {"done", "error"}
    /\ s_plus' = LibraryStatistic
    /\ printed' = Append(printed, s_plus')
    /\ pc' = "library"
    /\ UNCHANGED << data, diffs, signs, absolute_diffs, sorted_absolute_diffs,
                    i, idx, processed_data >>
    /\ UNCHANGED mvars

\* The same cell under a scipy that rejects a sample without a non-zero
\* difference: ValueError (zero_method 'wilcox' and 'pratt' do not work if
\* x - y is zero for all elements); s_plus keeps its value, nothing is
\* printed.
LibraryValueError ==
    /\ pc \in {"done", "error"}
    /\ AllDiffsZero
    /\ pc' = "library_error"
    /\ UNCHANGED << data, diffs, signs, absolute_diffs, sorted_absolute_diffs,
                    s_plus, i, idx, processed_data, printed >>
    /\ UNCHANGED mvars

Next ==
    \/ ComputeDiffs
    \/ SignsStep
    \/ SortDiffs
    \/ SPlusStep
    \/ SPlusDone
    \/ BuildFrame
    \/ FrameLengthError
    \/ LibraryWilcoxon
    \/ LibraryValueError

Spec == Init /\ [][Next]_vars

(* ------------------------- the metrics notebook ------------------------ *)

\* The Wilcoxon cell is not running.
WilcoxonIdle ==
    /\ data = << >>
    /\ diffs = << >>
    /\ signs = EmptyDict
    /\ absolute_diffs = << >>
    /\ sorted_absolute_diffs = << >>
    /\ s_plus = 0
    /\ i = 0
    /\ idx = 0
    /\ processed_data = << >>
    /\ printed = << >>
    /\ pc = "idle"

MetricsInit ==
    /\ \E pair \in LabelPairs :
         /\ labels = pair[1]
         /\ predictions = pair[2]
    /\ metric = "none"
    /\ value = NoValue
    /\ WilcoxonIdle

\* A call f(Y_test, y_hat) of one of the metric functions.
Call(name, result) ==
    /\ metric = "none"
    /\ metric' = name
    /\ value' = result
    /\ UNCHANGED << labels, predictions, wvars >>

CallAccuracy == Call("accuracy", accuracy(labels, predictions))
CallPrecision == Call("precision", precision(labels, predictions))
CallRecall == Call("recall", recall(labels, predictions))
CallF1 == Call("f1", f1(labels, predictions))
CallMSE == Call("MSE", MSE(labels, predictions))
CallRMSE == Call("RMSE", RMSE(labels, predictions))
CallMAE == Call("MAE", MAE(labels, predictions))
CallR2 == Call("R2", R2(labels, predictions))

MetricsNext ==
    \/ CallAccuracy
    \/ CallPrecision
    \/ CallRecall
    \/ CallF1
    \/ CallMSE
    \/ CallRMSE
    \/ CallMAE
    \/ CallR2

MetricsSpec == MetricsInit /\ [][MetricsNext]_vars

(* ------------------------ vocabulary of the claims --------------------- *)

\* The second loop has run to its end: s_plus is the statistic.
StatComputed == pc \in {"frame", "done", "error"}

\* f[1] + ... + f[n]
RECURSIVE SumTo(_, _)
SumTo(f, n) == IF n = 0 THEN 0 ELSE f[n] + SumTo(f, n - 1)

\* The sum of f[k] over the observations k of ds that satisfy Keep.
SumOverObs(ds, Keep(_), f) ==
    SumTo([k \in 1..Len(ds) |-> IF Keep(k) THEN f[k] ELSE 0], Len(ds))

\* s-, the analogue of s_plus: the sum of the ranks of the positions of
\* sorted whose recorded sign is '-'.
SMinusAfter(sorted, sg, n) ==
    SumTo([k \in 1..n |-> IF sg[sorted[k]] = "-" THEN Rank(k - 1) ELSE 0], n)

SMinusOfDiffs(ds) ==
    LET sorted == SortSeq(AbsoluteDiffsOf(ds))
    IN  SMinusAfter(sorted, SignsAfter(ds), Len(sorted))

SMinus == SMinusAfter(sorted_absolute_diffs, signs, Len(sorted_absolute_diffs))

\* N: the number of observations whose difference from the median is not zero.
NonZeroCount == Cardinality({k \in DOMAIN diffs : diffs[k] # 0})

\* The differences with the zero ones removed, and with every sign negated.
IsNonZero(d) == d # 0
NonZeroDiffs == SelectSeq(diffs, IsNonZero)
NegatedDiffs == [k \in DOMAIN diffs |-> 0 - diffs[k]]

\* How many observations have a smaller, resp. the same, absolute difference
\* as observation k; how many of the latter come before k in the sample.
SmallerThan(k) ==
    Cardinality({j \in DOMAIN diffs : Abs(diffs[j]) < Abs(diffs[k])})
TiedWith(k) ==
    Cardinality({j \in DOMAIN diffs : Abs(diffs[j]) = Abs(diffs[k])})
TiedBefore(k) ==
    Cardinality({j \in 1..(k - 1) : Abs(diffs[j]) = Abs(diffs[k])})

\* The rank of observation k when ties are ranked in sample order, and
\* twice its mid-rank (the mean of the positions its tied group spans).
OrdinalRank == [k \in DOMAIN diffs |-> SmallerThan(k) + TiedBefore(k) + 1]
TwiceMidRank == [k \in DOMAIN diffs |-> 2 * SmallerThan(k) + TiedWith(k) + 1]

\* The absolute differences are pairwise distinct.
NoTies == \A j, k \in DOMAIN diffs : j # k => Abs(diffs[j]) # Abs(diffs[k])

\* The positions of sorted_absolute_diffs that hold observation k's
\* absolute difference.
PositionsOf(k) ==
    {p \in DOMAIN sorted_absolute_diffs :
        sorted_absolute_diffs[p] = Abs(diffs[k])}

IsPositive(k) == diffs[k] > 0
HasPlusSign(k) == SignOf(diffs[k]) = "+"

(* ------------------------------- claims -------------------------------- *)

\* C1: s+ plus s- equals N(N+1)/2, N the number of nonzero differences.
C1_SumIsTriangularInNonZero ==
    StatComputed => 2 * (s_plus + SMinus) = NonZeroCount * (NonZeroCount + 1)

\* C2: s_plus is the sum of the ranks of exactly the observations whose own
\* difference is strictly positive (ties ranked in sample order).
C2_SPlusSumsPositiveObservations ==
    StatComputed => s_plus = SumOverObs(diffs, IsPositive, OrdinalRank)

\* C3: on the notebook's 17 observations and median 30, s+ = 76, at the end
\* of the loop and as printed.
C3_ReferenceSPlusIs76 ==
    data = ReferenceData =>
        /\ StatComputed => s_plus = 76
        /\ pc = "done" => printed = << 76 >>

C3_Witness ==
    /\ pc = "done"
    /\ data = ReferenceData
    /\ Len(sorted_absolute_diffs) = 17
    /\ printed = << 76 >>

\* C4: tied observations each get the mean of the positions their group
\* spans, and s+ is the sum of these mid-ranks over the observations whose
\* recorded sign is '+'.
C4_SPlusFromMidRanks ==
    StatComputed => 2 * s_plus = SumOverObs(diffs, HasPlusSign, TwiceMidRank)

\* C5: when the absolute differences are pairwise distinct, each observation
\* holds one position of the sorted array, its rank there is 1 plus the number
\* of observations of strictly smaller absolute difference, the ranks are a
\* permutation of 1..N, and s_plus sums them over the '+' observations.
C5_RanksArePermutation ==
    (pc \in {"s_plus", "frame", "done", "error"} /\ NoTies) =>
        /\ \A k \in DOMAIN diffs :
             /\ Cardinality(PositionsOf(k)) = 1
             /\ \A p \in PositionsOf(k) : Rank(p - 1) = SmallerThan(k) + 1
        /\ { Rank(p - 1) : p \in UNION { PositionsOf(k) : k \in DOMAIN diffs } }
             = 1..Len(data)
        /\ StatComputed =>
             s_plus = SumOverObs(diffs, HasPlusSign,
                                 [k \in DOMAIN diffs |-> SmallerThan(k) + 1])

C5_Witness ==
    /\ StatComputed
    /\ NoTies
    /\ Len(data) = 3
    /\ diffs = << 2 * One, 0 - One, 0 >>
    /\ sorted_absolute_diffs = << 0, One, 2 * One >>
    /\ s_plus = 4

\* C6: negating every difference exchanges s+ and s-.
C6_NegationSwaps ==
    StatComputed =>
        /\ SPlusOfDiffs(NegatedDiffs) = SMinus
        /\ SMinusOfDiffs(NegatedDiffs) = s_plus

\* C7: a zero difference adds to neither sum and holds no rank: s+ and s-
\* are those of the sample without its zero differences.
C7_ZeroExcluded ==
    StatComputed =>
        /\ s_plus = SPlusOfDiffs(NonZeroDiffs)
        /\ SMinus = SMinusOfDiffs(NonZeroDiffs)

\* C8: on an empty sample, or one whose every difference is zero, the
\* computation of the statistic does not complete with a number, and none is
\* printed.
C8_DegenerateInputFails ==
    (\A k \in DOMAIN data : data[k] = median) => pc \notin {"frame", "done"}

\* C9: if every difference is strictly positive s+ = N(N+1)/2, if every
\* difference is strictly negative s+ = 0, ties included.
C9_AllOneSign ==
    StatComputed =>
        /\ (\A k \in DOMAIN diffs : diffs[k] > 0) =>
               2 * s_plus = Len(diffs) * (Len(diffs) + 1)
        /\ (\A k \in DOMAIN diffs : diffs[k] < 0) => s_plus = 0

C9_Witness ==
    /\ StatComputed
    /\ Len(diffs) = 3
    /\ diffs = << 2 * One, One, 2 * One >>
    /\ s_plus = 6

\* C10: 0 <= s+ <= N(N+1)/2, N the number of nonzero differences.
C10_SPlusInRange ==
    StatComputed =>
        /\ 0 <= s_plus
        /\ 2 * s_plus <= NonZeroCount * (NonZeroCount + 1)

\* The differences multiplied by c, and with observations j and k exchanged.
ScaledDiffs(c) == [k \in DOMAIN diffs |-> c * diffs[k]]
SwappedDiffs(j, k) ==
    [n \in DOMAIN diffs |->
        IF n = j THEN diffs[k] ELSE IF n = k THEN diffs[j] ELSE diffs[n]]

\* C11: multiplying every difference by the same positive constant leaves
\* s+ unchanged.
C11_ScaleInvariant ==
    StatComputed =>
        \A c \in 1..MaxScale : SPlusOfDiffs(ScaledDiffs(c)) = s_plus

C11_Witness ==
    /\ StatComputed
    /\ diffs = << 0 - 2 * One, One, One >>
    /\ s_plus = 3
    /\ SPlusOfDiffs(ScaledDiffs(MaxScale)) = 3
    /\ ScaledDiffs(MaxScale) # diffs

\* The sum of all ranks the second loop can add: 1 + 2 + ... + n.
SumOfAllRanks(n) == SumTo([p \in 1..n |-> Rank(p - 1)], n)

AllPositive == \A k \in DOMAIN diffs : diffs[k] > 0

\* C12 (as stated): the largest s+ over the samples of n observations, the
\* sum of all ranks, is (n/2)(n-1).
C12_MaxIsHalfNTimesNMinusOne ==
    StatComputed =>
        /\ 2 * s_plus <= Len(data) * (Len(data) - 1)
        /\ AllPositive => 2 * s_plus = Len(data) * (Len(data) - 1)

\* C12 (amended): the largest s+ over the samples of n observations, the
\* sum of all ranks 1 + 2 + ... + n, is (n/2)(n+1); it is reached when every
\* difference is positive.
C12_MaxIsHalfNTimesNPlusOne ==
    StatComputed =>
        /\ 2 * SumOfAllRanks(Len(data)) = Len(data) * (Len(data) + 1)
        /\ s_plus <= SumOfAllRanks(Len(data))
        /\ AllPositive => s_plus = SumOfAllRanks(Len(data))

C12_Witness ==
    /\ StatComputed
    /\ diffs = << One, 2 * One, One, 2 * One >>
    /\ s_plus = 10

NoZeros == \A k \in DOMAIN diffs : diffs[k] # 0

\* C13: for every sample without ties and without zero differences, the
\* hand-rolled s_plus equals the statistic the library returns for the same
\* differences: the value the library cell stores in s_plus and prints below
\* the first cell's line is the value the first cell computed.
C13_LibraryConfirmsSPlus ==
    (pc = "library" /\ Len(data) >= 1 /\ NoTies /\ NoZeros) =>
        /\ s_plus.kind = "number"
        /\ s_plus.num = SPlusOfDiffs(diffs) * s_plus.den
        /\ Len(printed) = 2 => printed[2] = Number(2 * printed[1], 2)

\* The last observation, in sample order, whose absolute difference is m.
LastObsWith(m) ==
    CHOOSE k \in DOMAIN diffs :
        /\ Abs(diffs[k]) = m
        /\ \A j \in DOMAIN diffs : Abs(diffs[j]) = m => j <= k

\* C18: every position of the sorted array is attributed to the sign of the
\* last observation, in sample order, that has its magnitude; s_plus is the
\* sum of the ranks of the positions so attributed to '+', so a tied group
\* gives s+ all of its positions or none.
C18_SignOfLastObservation ==
    StatComputed =>
        /\ \A p \in DOMAIN sorted_absolute_diffs :
             signs[sorted_absolute_diffs[p]]
               = SignOf(diffs[LastObsWith(sorted_absolute_diffs[p])])
        /\ s_plus =
             SumTo([p \in DOMAIN sorted_absolute_diffs |->
                      IF SignOf(diffs[LastObsWith(sorted_absolute_diffs[p])]) = "+"
                      THEN Rank(p - 1) ELSE 0],
                   Len(sorted_absolute_diffs))

C18_Witness ==
    /\ StatComputed
    /\ diffs = << One, 2 * One, 0 - One >>
    /\ signs[One] = "-"
    /\ sorted_absolute_diffs = << One, One, 2 * One >>
    /\ s_plus = 3

\* C19: s+ does not depend on the order of the observations: exchanging any
\* two of them (and so any permutation) leaves it unchanged.
C19_OrderIndependent ==
    StatComputed =>
        \A j, k \in DOMAIN diffs : SPlusOfDiffs(SwappedDiffs(j, k)) = s_plus

\* C20: every row of the printed table describes one observation: its
\* 'absolute differences' is the magnitude of its 'differences', its 'signs'
\* the sign of its 'differences', its 'ranks' the rank of its observation.
C20_RowsDescribeObservations ==
    (pc = "done" /\ data # << >>) =>
        \A k \in DOMAIN processed_data :
            LET row == processed_data[k] IN
            /\ row.data = data[k]
            /\ row.differences = data[k] - median
            /\ row.absolute_differences = Abs(row.differences)
            /\ row.signs = SignOf(row.differences)
            /\ row.ranks = OrdinalRank[k]

(* ------------------- vocabulary of the metric claims ------------------- *)

\* The confusion counts of the labels and predictions, by definition.
TP == Cardinality({k \in DOMAIN labels : predictions[k] = 1 /\ labels[k] = 1})
FP == Cardinality({k \in DOMAIN labels : predictions[k] = 1 /\ labels[k] # 1})
FN == Cardinality({k \in DOMAIN labels : predictions[k] # 1 /\ labels[k] = 1})

\* The result is the rational n/d (d > 0).
ValueIs(n, d) ==
    /\ value.kind = "number"
    /\ value.num * d = n * value.den

IsBinary(xs) == \A k \in DOMAIN xs : xs[k] \in {0, 1}

\* C14: precision fails with a division by zero when TP + FP = 0 and returns
\* TP/(TP+FP) otherwise; recall fails with a division by zero when
\* TP + FN = 0 and returns TP/(TP+FN) otherwise.
C14_UndefinedMetricFails ==
    /\ metric = "precision" =>
         IF TP + FP = 0 THEN value = ZeroDivisionError
         ELSE ValueIs(TP, TP + FP)
    /\ metric = "recall" =>
         IF TP + FN = 0 THEN value = ZeroDivisionError
         ELSE ValueIs(TP, TP + FN)

C14_Witness ==
    /\ metric = "precision"
    /\ labels = << 1, 0, 1 >>
    /\ predictions = << 0, 0, 2 >>
    /\ value = ZeroDivisionError

\* C15: for binary labels and predictions with TP + FP + FN > 0, f1 returns
\* TP / (TP + (FP + FN)/2).
C15_F1ClosedForm ==
    (metric = "f1" /\ IsBinary(labels) /\ IsBinary(predictions)
       /\ TP + FP + FN > 0) =>
        ValueIs(2 * TP, 2 * TP + FP + FN)

Positives == Cardinality({k \in DOMAIN labels : labels[k] = 1})

\* C16: when every prediction is 1 and the binary labels hold at least one 1,
\* recall returns 1, and precision and accuracy return the share of the
\* positive labels.
C16_AlwaysPositiveModel ==
    (/\ \A k \in DOMAIN predictions : predictions[k] = 1
     /\ IsBinary(labels)
     /\ Positives > 0) =>
        /\ metric = "recall" => ValueIs(1, 1)
        /\ metric = "precision" => ValueIs(Positives, Len(labels))
        /\ metric = "accuracy" => ValueIs(Positives, Len(labels))

C16_Witness ==
    /\ metric = "accuracy"
    /\ labels = << 0, 1, 0 >>
    /\ predictions = << 1, 1, 1 >>
    /\ value = Number(1, 3)

\* The sums of squares of the R-squared definition:
\* SSres = sum (y - y_hat)^2, and N * SStot = N * sum y^2 - (sum y)^2 for
\* SStot = sum (y - mean(y))^2.
SumY == SumSeq(labels, Len(labels))
SumYSquared == SumSeq([k \in DOMAIN labels |-> labels[k] * labels[k]], Len(labels))
SSres ==
    SumSeq([k \in DOMAIN labels |->
              (labels[k] - predictions[k]) * (labels[k] - predictions[k])],
           Len(labels))
NTimesSStot == Len(labels) * SumYSquared - SumY * SumY

LabelsDiffer == \E j, k \in DOMAIN labels : labels[j] # labels[k]

\* C17: for labels that are not all equal, R2 returns
\* 1 - sum (y - y_hat)^2 / sum (y - mean(y))^2; that is 0 when every prediction
\* is the mean of the labels and 1 when the predictions are the labels.
C17_R2IsOneMinusRatio ==
    (metric = "R2" /\ LabelsDiffer) =>
        /\ ValueIs(NTimesSStot - Len(labels) * SSres, NTimesSStot)
        /\ (\A k \in DOMAIN predictions : Len(labels) * predictions[k] = SumY)
             => ValueIs(0, 1)
        /\ predictions = labels => ValueIs(1, 1)

C17_Witness ==
    /\ metric = "R2"
    /\ labels = << 0, 2, 1 >>
    /\ predictions = << 1, 1, 1 >>
    /\ ValueIs(0, 1)

(* --------------------- the cell on other sample sizes ------------------ *)

\* C21: on a sample of any size N >= 1 the cell runs to its end, prints
\* s_plus, and the 'ranks' column of its table is 1..N.
C21_AnySampleSizeCompletes ==
    Len(data) >= 1 =>
        /\ pc # "error"
        /\ pc = "done" =>
             /\ printed = << s_plus >>
             /\ Len(processed_data) = Len(data)
             /\ \A k \in DOMAIN processed_data : processed_data[k].ranks = k

(* ----------------------------- RMSE and MAE ---------------------------- *)

\* The rational a is at least, resp. exactly, the square of the rational b
\* (denominators are positive).
AtLeastSquareOf(a, b) == a.num * b.den * b.den >= b.num * b.num * a.den
IsSquareOf(a, b) == a.num * b.den * b.den = b.num * b.num * a.den

\* Every absolute error |y - y_hat| is the same.
AbsErrorsEqual ==
    \A j, k \in DOMAIN labels :
        Abs(labels[j] - predictions[j]) = Abs(labels[k] - predictions[k])

\* mse and mae are numbers with mse >= mae^2, and with equality exactly
\* when all absolute errors are equal.
MeanSquareDominates(mse, mae) ==
    /\ mse.kind = "number"
    /\ mae.kind = "number"
    /\ AtLeastSquareOf(mse, mae)
    /\ IsSquareOf(mse, mae) <=> AbsErrorsEqual

\* C22: on non-empty labels and predictions RMSE is never smaller than MAE:
\* MSE >= MAE^2, with equality exactly when all absolute errors are equal.
\* Stated of each of the three calls against the other metric.
C22_RMSEAtLeastMAE ==
    Len(labels) > 0 =>
        /\ metric = "MSE" =>
             MeanSquareDominates(value, MAE(labels, predictions))
        /\ metric = "MAE" =>
             MeanSquareDominates(MSE(labels, predictions), value)
        /\ metric = "RMSE" =>
             /\ value.kind = "sqrt"
             /\ MeanSquareDominates(Number(value.num, value.den),
                                    MAE(labels, predictions))

C22_Witness ==
    /\ metric = "RMSE"
    /\ labels = << 0, 2, 1 >>
    /\ predictions = << 2, 2, 0 >>
    /\ value = [kind |-> "sqrt", num |-> 5, den |-> 3]
    /\ MAE(labels, predictions) = Number(3, 3)

=============================================================================
